---- MODULE Spec2Model ----
(***************************************************************************)
(* QuickPath URL shortener: the alias allocation and persistence engine.   *)
(*                                                                         *)
(* DatabaseManager.add_url / get_url / delete_url (database_manager.py)    *)
(* and the two HTTP handlers that call them, shorten_url and               *)
(* redirect_to_long_url (main.py), running as concurrent asyncio tasks     *)
(* over one shared store.  Every await on the store is one atomic step;    *)
(* the code between two awaits runs without interleaving.                  *)
(*                                                                         *)
(* Strings are sequences of tokens: a URL is <<scheme, rest>> or <<rest>>, *)
(* an alias is a sequence of characters, <<>> is the empty string.         *)
(* Python's None is also written <<>> where the code only tests            *)
(* truthiness (custom_short).                                              *)
(***************************************************************************)
EXTENDS Integers, Sequences, FiniteSets, TLC

\* ------------------------------------------------------------------ bounds

\* Total number of requests served in one behaviour.
MaxReq == 2

\* Concurrent request tasks.
Procs == {"t1", "t2"}

\* The alphabets generate_short_url draws from (string.ascii_lowercase and
\* string.digits in the source), cut down to keep the alias space small
\* enough to be filled.
Letters == {"a"}
Digits == {"0", "1"}

\* --------------------------------------------------------- program values

\* k=4 letters followed by k=2 digits.
NumChars == 4
NumDigits == 2

NoAlias == <<>>
EmptyStr == <<>>

\* `if custom_short:` - None and "" are both falsy.
Truthy(s) == s # <<>>

\* string.ascii_lowercase and string.digits.
AsciiLowercase ==
    { "a", "b", "c", "d", "e", "f", "g", "h", "i", "j", "k", "l", "m",
      "n", "o", "p", "q", "r", "s", "t", "u", "v", "w", "x", "y", "z" }

AsciiDigits == { "0", "1", "2", "3", "4", "5", "6", "7", "8", "9" }

\* generate_short_url that may draw one digit fewer.
generate_short_url_ShortDraw ==
    { c \o d : c \in [1..NumChars -> Letters],
               d \in [1..NumDigits -> Digits] \cup [1..(NumDigits - 1) -> Digits] }

\* generate_short_url: every value random.choices can return.
generate_short_url ==
    { c \o d : c \in [1..NumChars -> Letters], d \in [1..NumDigits -> Digits] }

\* request.original_url values tried.
UrlInputs == { <<"example.com">>, <<"http://", "example.com">> }

AllUrlInputs ==
    { EmptyStr,
      <<"example.com">>,
      <<"http://", "example.com">>,
      <<"https://", "example.com">> }

DeepUrlInputs == { <<"example.com">> }

\* request.custom_short values tried: none, and an alias that the generator
\* can produce too.
CustomInputs == { NoAlias, <<"a", "a", "a", "a", "0", "0">> }

\* short_url path parameters tried by resolve and remove.
PathInputs == { <<"a", "a", "a", "a", "0", "0">>, <<"a", "a", "a", "a", "0", "1">> }

AllAliases == generate_short_url \cup (CustomInputs \ {NoAlias}) \cup PathInputs

\* long_url.startswith(('http://', 'https://'))
HasScheme(u) == Len(u) > 0 /\ u[1] \in {"http://", "https://"}

\* add_url's first statement.
\* add_url prepending the scheme whatever the text starts with.
Normalize_AlwaysPrefix(u) == <<"https://">> \o u

Normalize(u) == IF HasScheme(u) THEN u ELSE <<"https://">> \o u

Placeholder(short_id) == <<"https://via.placeholder.com/150?text=">> \o short_id

PublicUrl(short_id) == <<"supabase/qr-codes/">> \o short_id \o <<".png">>

\* What can happen inside generate_qr / upload_to_supabase.
QrModes == {"ok", "encode_error", "upload_error", "no_path"}

\* upload_to_supabase giving nothing back when the upload did not work.
upload_to_supabase_NoFallback(short_id, mode) ==
    IF mode = "ok" THEN PublicUrl(short_id) ELSE EmptyStr

\* upload_to_supabase: the public URL when the upload response carries a
\* path, the placeholder when it does not or when anything raises.
upload_to_supabase(short_id, mode) ==
    IF mode = "ok" THEN PublicUrl(short_id) ELSE Placeholder(short_id)

\* generate_qr giving nothing back when the encoding raises.
generate_qr_NoPlaceholder(url, short_id, mode) ==
    IF mode = "encode_error"
    THEN EmptyStr
    ELSE upload_to_supabase(short_id, mode)

\* generate_qr: encode, then upload; any exception gives the placeholder.
generate_qr(url, short_id, mode) ==
    IF mode = "encode_error"
    THEN Placeholder(short_id)
    ELSE upload_to_supabase(short_id, mode)

\* ------------------------------------------------------------- the store

NoRecord == [id |-> 0, long_url |-> <<>>, short_url |-> <<>>, qr_code |-> <<>>]

Row(i, l, s, q) == [id |-> i, long_url |-> l, short_url |-> s, qr_code |-> q]

\* select(urls).where(short_url == key) + fetch_one
fetch_one(st, key) ==
    IF \E r \in st : r.short_url = key
    THEN CHOOSE r \in st : r.short_url = key
    ELSE NoRecord

\* The table without its unique constraint.
UniqueViolation_Unenforced(st, key) == FALSE

\* Column(String, unique=True): the insert is rejected when the alias is
\* already in the table.
UniqueViolation(st, key) == \E r \in st : r.short_url = key

\* add_url without the custom alias check.
add_url_check_NoConflict(custom, existing) ==
    IF Truthy(custom)
    THEN "use_custom"
    ELSE IF existing = NoRecord THEN "accept" ELSE "regenerate"

\* add_url's branch on the row its existence check fetched: a taken custom
\* alias raises the 400, a free one is used as it is; a taken candidate is
\* regenerated, a free one accepted.
add_url_check(custom, existing) ==
    IF Truthy(custom)
    THEN IF existing # NoRecord THEN "conflict" ELSE "use_custom"
    ELSE IF existing = NoRecord THEN "accept" ELSE "regenerate"

\* The insert storing the URL as the caller sent it.
insert_values_Raw(i, orig, l, s, q) == Row(i, orig, s, q)

\* insert(urls).values(long_url=long_url, short_url=short_url, qr_code=...)
insert_values(i, orig, l, s, q) == Row(i, l, s, q)

\* A delete without its where clause.
delete_rows_All(st, key) == {}

\* A delete that matches no row.
delete_rows_Nothing(st, key) == st

\* delete(urls).where(short_url == key)
delete_rows(st, key) == { r \in st : r.short_url # key }

\* ------------------------------------------------------------- responses

Response(exc, status, error, orig, short, qr, loc) ==
    [exc |-> exc, status |-> status, error |-> error,
     original_url |-> orig, short_url |-> short, qr_code_url |-> qr,
     location |-> loc]

ErrorResponse(status, error) ==
    Response("", status, error, <<>>, <<>>, <<>>, <<>>)

NoResponse == ErrorResponse(0, "")

\* shorten_url, `except HTTPException` passing add_url's 400 through.
AliasConflictResponse ==
    ErrorResponse(400, "Short URL already exists, please choose another one")

\* shorten_url, `except Exception`.
ShortenFailedResponse ==
    ErrorResponse(500, "Failed to shorten URL. Please try again.")

\* shorten_url, the record is gone when it is fetched back.
ShortenNoRecordResponse ==
    ErrorResponse(500, "Failed to retrieve URL information")

ShortenOkResponse(orig, short_id, row) ==
    Response("", 200, "", orig, <<"BASE_URL/">> \o short_id, row.qr_code, <<>>)

\* get_url: what the call gives back to redirect_to_long_url.  The 404 it
\* raises inside its own try block is caught by its `except Exception` and
\* re-raised as a 500.
get_url(row, ok) ==
    IF ~ok
    THEN [exc |-> "HTTPException", status |-> 500,
          detail |-> "Database error: connection", row |-> NoRecord]
    ELSE IF row # NoRecord
    THEN [exc |-> "", status |-> 0, detail |-> "", row |-> row]
    ELSE [exc |-> "HTTPException", status |-> 500,
          detail |-> "Database error: 404: Short URL not found",
          row |-> NoRecord]

\* redirect_to_long_url, the answer of its own 404 branch.
NotFoundResponse == ErrorResponse(404, "Short URL not found")

\* redirect_to_long_url around get_url.
redirect_to_long_url(o) ==
    IF o.exc # ""
    THEN ErrorResponse(500, "Error processing redirect")
    ELSE IF o.row # NoRecord
    THEN Response("", 307, "", <<>>, <<>>, <<>>, o.row.long_url)
    ELSE NotFoundResponse

\* delete_url: what the call raises or returns.
DeleteNotFound ==
    Response("HTTPException", 400, "Short URL not found", <<>>, <<>>, <<>>, <<>>)

DeleteStoreError ==
    Response("Exception", 0, "connection", <<>>, <<>>, <<>>, <<>>)

DeleteReturned == NoResponse

\* ----------------------------------------------------------------- state

VARIABLES
    store,          \* the urls table: a set of rows
    nextId,         \* the next primary key the table assigns
    bucket,         \* the qr-codes bucket: alias -> URL its image encodes
    is_connected,   \* database.is_connected
    pc,             \* where each task is
    kind,           \* "create", "resolve", "remove"
    original_url,   \* request.original_url
    alias_arg,      \* request.custom_short, or the short_url path parameter
    long_url,       \* add_url's long_url
    short_url,      \* add_url's short_url
    qr_code_url,    \* add_url's qr_code_url
    response,       \* what the task answered
    result,         \* the row the task last fetched
    cause,          \* history: why the task ended as it did
    qr_failed,      \* history: the task's generate_qr hit a producer failure
    live,           \* history: per alias, the last insert or delete
    store0,         \* history: the table the run started on
    reqLimit,       \* how many requests the run serves
    own_id,         \* history: the key of the row the task's insert stored
    numReq          \* history: requests started so far

storeVars == <<store, nextId, bucket, is_connected>>
reqVars == <<kind, alias_arg>>
localVars == <<original_url, long_url, short_url, qr_code_url, qr_failed>>
outVars == <<response, result, cause>>
histVars == <<live, numReq, store0, reqLimit>>
vars == <<storeVars, pc, reqVars, localVars, outVars, histVars, own_id>>

\* The table is persistent: a run starts on whatever earlier runs left in
\* it.  The tables tried: the empty one, one with a single row, and one in
\* which every alias the generator can produce is taken.
SeedAlias == <<"a", "a", "a", "a", "0", "0">>

SeedUrl == <<"https://", "example.com">>

SeedIds == CHOOSE f \in [generate_short_url -> 1..Cardinality(generate_short_url)] :
              /\ f[SeedAlias] = 1
              /\ \A a \in generate_short_url, b \in generate_short_url :
                    f[a] = f[b] => a = b

SeedRow(a) == Row(SeedIds[a], SeedUrl, a, PublicUrl(a))

InitialStores ==
    { {}, {SeedRow(SeedAlias)}, { SeedRow(a) : a \in generate_short_url } }

Never == [state |-> "never", url |-> <<>>]
Removed == [state |-> "removed", url |-> <<>>]
Live(u) == [state |-> "live", url |-> u]

InitWith(limit) ==
    /\ reqLimit = limit
    /\ store \in InitialStores
    /\ store0 = store
    /\ nextId = Cardinality(store) + 1
    /\ bucket = [a \in AllAliases |->
                   IF \E r \in store : r.short_url = a THEN SeedUrl ELSE <<>>]
    /\ is_connected \in BOOLEAN      \* startup() swallows a failed connect
    /\ pc = [p \in Procs |-> "idle"]
    /\ kind = [p \in Procs |-> "none"]
    /\ original_url = [p \in Procs |-> <<>>]
    /\ alias_arg = [p \in Procs |-> <<>>]
    /\ long_url = [p \in Procs |-> <<>>]
    /\ short_url = [p \in Procs |-> <<>>]
    /\ qr_code_url = [p \in Procs |-> <<>>]
    /\ qr_failed = [p \in Procs |-> FALSE]
    /\ response = [p \in Procs |-> NoResponse]
    /\ result = [p \in Procs |-> NoRecord]
    /\ cause = [p \in Procs |-> "none"]
    /\ live = [a \in AllAliases |->
                 IF \E r \in store : r.short_url = a THEN Live(SeedUrl) ELSE Never]
    /\ numReq = 0
    /\ own_id = [p \in Procs |-> 0]

Init == InitWith(MaxReq)

\* The task ends with response r, having fetched row, for the reason why;
\* the request body and add_url's locals go out of scope.
Finish(p, r, row, why) ==
    /\ pc' = [pc EXCEPT ![p] = "done"]
    /\ response' = [response EXCEPT ![p] = r]
    /\ result' = [result EXCEPT ![p] = row]
    /\ cause' = [cause EXCEPT ![p] = why]
    /\ long_url' = [long_url EXCEPT ![p] = <<>>]
    /\ short_url' = [short_url EXCEPT ![p] = <<>>]
    /\ qr_code_url' = [qr_code_url EXCEPT ![p] = <<>>]
    /\ qr_failed' = [qr_failed EXCEPT ![p] = FALSE]
    /\ original_url' = [original_url EXCEPT ![p] = <<>>]

\* ------------------------------------------------------ shorten_url/add_url

\* POST /shorten arrives: connect if needed, then add_url up to its first
\* await (the URL is normalized and, without a custom alias, the first
\* candidate is generated).
ShortenBegin(p, u, c) ==
    /\ pc[p] = "idle"
    /\ numReq < reqLimit
    /\ numReq' = numReq + 1
    /\ kind' = [kind EXCEPT ![p] = "create"]
    /\ alias_arg' = [alias_arg EXCEPT ![p] = c]
    /\ \/ /\ is_connected' = TRUE      \* connected, or connect() succeeds
          /\ original_url' = [original_url EXCEPT ![p] = u]
          /\ long_url' = [long_url EXCEPT ![p] = Normalize(u)]
          /\ \E g \in (IF Truthy(c) THEN {<<>>} ELSE generate_short_url) :
                short_url' = [short_url EXCEPT ![p] = g]
          /\ pc' = [pc EXCEPT ![p] = "add_url_check"]
          /\ UNCHANGED <<qr_code_url, qr_failed, outVars>>
       \/ /\ ~is_connected             \* connect() raises
          /\ UNCHANGED is_connected
          /\ Finish(p, ShortenFailedResponse, NoRecord, "store_failure")
    /\ UNCHANGED <<store, nextId, bucket, live, store0, reqLimit, own_id>>

\* add_url's existence check: one fetch_one.
AddUrlCheck(p) ==
    /\ pc[p] = "add_url_check"
    /\ \/ Finish(p, ShortenFailedResponse, NoRecord, "store_failure")
       \/ LET key == IF Truthy(alias_arg[p]) THEN alias_arg[p] ELSE short_url[p]
              branch == add_url_check(alias_arg[p], fetch_one(store, key))
          IN  CASE branch = "conflict" ->
                     Finish(p, AliasConflictResponse, NoRecord, "conflict")
                [] branch = "use_custom" ->
                     /\ short_url' = [short_url EXCEPT ![p] = alias_arg[p]]
                     /\ pc' = [pc EXCEPT ![p] = "generate_qr"]
                     /\ UNCHANGED <<original_url, long_url, qr_code_url, qr_failed, outVars>>
                [] branch = "accept" ->
                     /\ pc' = [pc EXCEPT ![p] = "generate_qr"]
                     /\ UNCHANGED <<localVars, outVars>>
                [] branch = "regenerate" ->
                     /\ \E g \in generate_short_url :
                           short_url' = [short_url EXCEPT ![p] = g]
                     /\ UNCHANGED <<pc, original_url, long_url, qr_code_url, qr_failed, outVars>>
    /\ UNCHANGED <<storeVars, reqVars, histVars, own_id>>

\* generate_qr: renders and uploads under <short_id>.png.
GenerateQr(p) ==
    /\ pc[p] = "generate_qr"
    /\ \E mode \in QrModes :
          /\ qr_failed' = [qr_failed EXCEPT ![p] = (mode # "ok")]
          /\ qr_code_url' = [qr_code_url EXCEPT ![p] =
                                generate_qr(long_url[p], short_url[p], mode)]
          /\ bucket' = IF mode = "ok"
                       THEN [bucket EXCEPT ![short_url[p]] = long_url[p]]
                       ELSE bucket
    /\ pc' = [pc EXCEPT ![p] = "add_url_insert"]
    /\ UNCHANGED <<store, nextId, is_connected, reqVars, original_url, long_url,
                   short_url, outVars, histVars, own_id>>

\* add_url's insert: one execute.
AddUrlInsert(p) ==
    /\ pc[p] = "add_url_insert"
    /\ \/ /\ Finish(p, ShortenFailedResponse, NoRecord, "store_failure")
          /\ UNCHANGED <<store, nextId, live, own_id>>
       \/ /\ UniqueViolation(store, short_url[p])
          /\ Finish(p, ShortenFailedResponse, NoRecord, "race_lost")
          /\ UNCHANGED <<store, nextId, live, own_id>>
       \/ /\ ~UniqueViolation(store, short_url[p])
          /\ store' = store \cup
                {insert_values(nextId, original_url[p], long_url[p],
                               short_url[p], qr_code_url[p])}
          /\ nextId' = nextId + 1
          /\ own_id' = [own_id EXCEPT ![p] = nextId]
          /\ live' = [live EXCEPT ![short_url[p]] = Live(Normalize(original_url[p]))]
          /\ pc' = [pc EXCEPT ![p] = "shorten_fetch"]
          /\ UNCHANGED <<localVars, outVars>>
    /\ UNCHANGED <<bucket, is_connected, reqVars, numReq, store0, reqLimit>>

\* shorten_url fetches the complete record back and answers.
ShortenFetch(p) ==
    /\ pc[p] = "shorten_fetch"
    /\ \/ Finish(p, ShortenFailedResponse, NoRecord, "store_failure")
       \/ LET row == fetch_one(store, short_url[p])
          IN  IF row = NoRecord
              THEN Finish(p, ShortenNoRecordResponse, NoRecord, "vanished")
              ELSE Finish(p, ShortenOkResponse(original_url[p], short_url[p], row),
                          row, "ok")
    /\ UNCHANGED <<storeVars, reqVars, histVars, own_id>>

\* ------------------------------------------- redirect_to_long_url/get_url

\* GET /{short_url} arrives: connect if needed.
RedirectBegin(p, a) ==
    /\ pc[p] = "idle"
    /\ numReq < reqLimit
    /\ numReq' = numReq + 1
    /\ kind' = [kind EXCEPT ![p] = "resolve"]
    /\ alias_arg' = [alias_arg EXCEPT ![p] = a]
    /\ \/ /\ is_connected' = TRUE
          /\ pc' = [pc EXCEPT ![p] = "get_url"]
          /\ UNCHANGED <<localVars, outVars>>
       \/ /\ ~is_connected
          /\ UNCHANGED is_connected
          /\ Finish(p, redirect_to_long_url(get_url(NoRecord, FALSE)),
                    NoRecord, "store_failure")
    /\ UNCHANGED <<store, nextId, bucket, live, store0, reqLimit, own_id>>

\* get_url's fetch_one and the handler's answer.
GetUrl(p) ==
    /\ pc[p] = "get_url"
    /\ \E ok \in BOOLEAN :
          LET o == get_url(fetch_one(store, alias_arg[p]), ok)
          IN  Finish(p, redirect_to_long_url(o), o.row,
                     IF ~ok THEN "store_failure"
                     ELSE IF o.row = NoRecord THEN "not_found" ELSE "ok")
    /\ UNCHANGED <<storeVars, reqVars, histVars, own_id>>

\* ------------------------------------------------------------- delete_url

\* delete_url(short_url) is called; it has no handler that connects for it.
DeleteBegin(p, a) ==
    /\ pc[p] = "idle"
    /\ numReq < reqLimit
    /\ numReq' = numReq + 1
    /\ kind' = [kind EXCEPT ![p] = "remove"]
    /\ alias_arg' = [alias_arg EXCEPT ![p] = a]
    /\ pc' = [pc EXCEPT ![p] = "delete_lookup"]
    /\ UNCHANGED <<storeVars, localVars, outVars, live, store0, reqLimit, own_id>>

\* delete_url's fetch_one.
DeleteLookup(p) ==
    /\ pc[p] = "delete_lookup"
    /\ \/ Finish(p, DeleteStoreError, NoRecord, "store_failure")
       \/ /\ is_connected
          /\ LET row == fetch_one(store, alias_arg[p])
             IN  IF row = NoRecord
                 THEN Finish(p, DeleteNotFound, NoRecord, "not_found")
                 ELSE /\ pc' = [pc EXCEPT ![p] = "delete_exec"]
                      /\ result' = [result EXCEPT ![p] = row]
                      /\ UNCHANGED <<response, cause, localVars>>
    /\ UNCHANGED <<storeVars, reqVars, histVars, own_id>>

\* delete_url's delete, keyed on the alias.
DeleteExec(p) ==
    /\ pc[p] = "delete_exec"
    /\ \/ /\ Finish(p, DeleteStoreError, result[p], "store_failure")
          /\ UNCHANGED <<store, live>>
       \/ /\ is_connected
          /\ store' = delete_rows(store, alias_arg[p])
          /\ live' = [live EXCEPT ![alias_arg[p]] = Removed]
          /\ Finish(p, DeleteReturned, result[p], "ok")
    /\ UNCHANGED <<nextId, bucket, is_connected, reqVars, numReq, store0, reqLimit, own_id>>

\* ------------------------------------------------------------------ tasks

\* The task is over; its slot serves the next request.
Return(p) ==
    /\ pc[p] = "done"
    /\ pc' = [pc EXCEPT ![p] = "idle"]
    /\ kind' = [kind EXCEPT ![p] = "none"]
    /\ alias_arg' = [alias_arg EXCEPT ![p] = <<>>]
    /\ response' = [response EXCEPT ![p] = NoResponse]
    /\ result' = [result EXCEPT ![p] = NoRecord]
    /\ cause' = [cause EXCEPT ![p] = "none"]
    /\ own_id' = [own_id EXCEPT ![p] = 0]
    /\ UNCHANGED <<storeVars, localVars, histVars>>

\* The requests and their steps, with original_url drawn from urls,
\* custom_short from customs and the path parameter short_url from paths.
NextOn(urls, customs, paths) ==
    \/ \E p \in Procs, u \in urls, c \in customs : ShortenBegin(p, u, c)
    \/ \E p \in Procs : AddUrlCheck(p)
    \/ \E p \in Procs : GenerateQr(p)
    \/ \E p \in Procs : AddUrlInsert(p)
    \/ \E p \in Procs : ShortenFetch(p)
    \/ \E p \in Procs, a \in paths : RedirectBegin(p, a)
    \/ \E p \in Procs : GetUrl(p)
    \/ \E p \in Procs, a \in paths : DeleteBegin(p, a)
    \/ \E p \in Procs : DeleteLookup(p)
    \/ \E p \in Procs : DeleteExec(p)
    \/ \E p \in Procs : Return(p)

Next == NextOn(UrlInputs, CustomInputs, PathInputs)

Spec == Init /\ [][Next]_vars

\* The same service asked to shorten every kind of URL text add_url can be
\* handed (empty, bare, starting with either scheme), aliases generated.
NextUrls == NextOn(AllUrlInputs, {NoAlias}, {SeedAlias})

SpecUrls == Init /\ [][NextUrls]_vars

\* The same service over a longer run (one request more) of one URL, for the
\* histories that need a create, a remove and a further request.
NextDeep == NextOn(DeepUrlInputs, CustomInputs, PathInputs)

SpecDeep == InitWith(MaxReq + 1) /\ [][NextDeep]_vars

\* One step of a request that is being served.
Step(p) ==
    \/ AddUrlCheck(p)
    \/ GenerateQr(p)
    \/ AddUrlInsert(p)
    \/ ShortenFetch(p)
    \/ GetUrl(p)
    \/ DeleteLookup(p)
    \/ DeleteExec(p)

\* The existence check of p after which p's candidate is g.
Draws(p, g) == AddUrlCheck(p) /\ short_url'[p] = g

\* The event loop resumes every task whose await has completed, and the
\* store answers every call; random.choices gives every alias again and
\* again when it is asked again and again.
FairSpec ==
    /\ Spec
    /\ \A p \in Procs : WF_vars(Step(p))
    /\ \A p \in Procs, g \in generate_short_url : SF_vars(Draws(p, g))

\* ================================================================ claims

Done(p) == pc[p] = "done"

RowsOf(alias) == { r \in store : r.short_url = alias }

\* C1: in every reachable state, whatever the interleaving of add_url and
\* delete_url, no two rows of the table have the same short_url.
C1_UniqueAlias ==
    \A r1 \in store, r2 \in store : r1.short_url = r2.short_url => r1 = r2

\* A create lost the insert to another create of the same alias, whose row
\* is in the table.
C1_Witness ==
    \E p \in Procs, q \in Procs :
        /\ Done(p) /\ cause[p] = "race_lost"
        /\ kind[q] = "create" /\ RowsOf(short_url[q]) # {}

\* C2: when two creates both saw the alias free and both insert, one insert
\* succeeds, no duplicate row appears, and the loser answers with an outcome
\* of its own, not the generic failure of shorten_url.
C2_RaceLoserDistinctOutcome ==
    /\ C1_UniqueAlias
    /\ \A p \in Procs :
          (Done(p) /\ kind[p] = "create" /\ cause[p] = "race_lost")
             => response[p] # ShortenFailedResponse

\* C3: when every task has run one create without a custom alias against
\* the empty store, nothing else has run and no store call has failed, the
\* table holds one row per create, with pairwise distinct aliases.
C3_AllCreatesPersisted ==
    ( /\ store0 = {}
      /\ numReq = Cardinality(Procs)
      /\ \A p \in Procs :
            /\ Done(p)
            /\ kind[p] = "create"
            /\ alias_arg[p] = NoAlias
            /\ cause[p] # "store_failure" )
    => /\ Cardinality(store) = Cardinality(Procs)
       /\ Cardinality({ r.short_url : r \in store }) = Cardinality(Procs)

\* C4: a resolve of an alias whose last store change was the insert of a
\* create (no remove of it since) returns a row carrying that alias, the
\* normalized URL that create was given, and a non-empty qr_code.
C4_ResolveAfterCreate ==
    [][ \A p \in Procs :
          ( /\ pc[p] = "get_url"
            /\ pc'[p] = "done"
            /\ cause'[p] # "store_failure"
            /\ live[alias_arg[p]].state = "live" )
          => /\ cause'[p] = "ok"
             /\ result'[p].short_url = alias_arg[p]
             /\ result'[p].long_url = live[alias_arg[p]].url
             /\ result'[p].qr_code # EmptyStr ]_vars

\* A resolve returned the row that a create of this run inserted, for a URL
\* that had to be normalized.
C4_Witness ==
    \E p \in Procs :
        /\ Done(p)
        /\ kind[p] = "resolve"
        /\ cause[p] = "ok"
        /\ result[p] \notin store0
        /\ result[p].long_url = <<"https://", "example.com">>
        /\ live[alias_arg[p]] = Live(<<"https://", "example.com">>)

\* C5: a create with a custom alias that has a row ends, at its existence
\* check, with the alias conflict answer: no retry, no artifact, no insert,
\* the table unchanged.
C5_CustomAliasConflict ==
    [][ \A p \in Procs :
          ( /\ pc[p] = "add_url_check"
            /\ alias_arg[p] # NoAlias
            /\ RowsOf(alias_arg[p]) # {}
            /\ pc'[p] # pc[p]
            /\ cause'[p] # "store_failure" )
          => /\ pc'[p] = "done"
             /\ response'[p] = AliasConflictResponse
             /\ store' = store
             /\ nextId' = nextId
             /\ bucket' = bucket ]_vars

\* A create was refused for its custom alias while the row it collided
\* with is in the table.
C5_Witness ==
    \E p \in Procs :
        /\ Done(p)
        /\ cause[p] = "conflict"
        /\ response[p] = AliasConflictResponse
        /\ RowsOf(alias_arg[p]) # {}

\* C6: a resolve of an alias that has no row ends with the not-found
\* answer, HTTP 404 "Short URL not found".
C6_ResolveAbsentIsNotFound ==
    \A p \in Procs :
        (Done(p) /\ kind[p] = "resolve" /\ cause[p] = "not_found")
           => response[p] = NotFoundResponse

\* C7: the answer to a request that hit a store failure differs from the
\* answer to a request that found its alias absent or its custom alias
\* taken.
C7_StoreFailureDistinct ==
    \A p \in Procs, q \in Procs :
        ( /\ Done(p) /\ cause[p] = "store_failure"
          /\ Done(q) /\ cause[q] \in {"not_found", "conflict"} )
        => response[p] # response[q]

\* C8: a resolve of an alias whose last store change was a remove (no
\* insert of it since) finds no row and ends with the not-found answer.
C8_ResolveAfterRemoveIsNotFound ==
    [][ \A p \in Procs :
          ( /\ pc[p] = "get_url"
            /\ pc'[p] = "done"
            /\ cause'[p] # "store_failure"
            /\ live[alias_arg[p]].state = "removed" )
          => /\ RowsOf(alias_arg[p]) = {}
             /\ response'[p] = NotFoundResponse ]_vars

\* C9: when generate_qr hits a producer failure (encoding, upload
\* exception, upload response without a path) the create goes on to its
\* insert with the placeholder of its alias, the row it inserts carries that
\* placeholder, and the create that is not stopped by the store answers 200
\* with its alias.
C9_ArtifactFailureAbsorbed ==
    [][ \A p \in Procs :
          /\ (pc[p] = "generate_qr" /\ pc'[p] # pc[p] /\ qr_failed'[p])
                => /\ pc'[p] = "add_url_insert"
                   /\ qr_code_url'[p] = Placeholder(short_url[p])
          /\ (pc[p] = "add_url_insert" /\ qr_failed[p] /\ pc'[p] = "shorten_fetch")
                => \E r \in store' \ store :
                      /\ r.short_url = short_url[p]
                      /\ r.qr_code = Placeholder(short_url[p])
          /\ (pc[p] = "shorten_fetch" /\ qr_failed[p] /\ cause'[p] = "ok")
                => /\ response'[p].status = 200
                   /\ response'[p].short_url = <<"BASE_URL/">> \o short_url[p] ]_vars

\* A create whose artifact producer failed answered 200 and its row holds
\* the placeholder of its alias.
C9_Witness ==
    \E p \in Procs :
        /\ Done(p)
        /\ kind[p] = "create"
        /\ cause[p] = "ok"
        /\ response[p].status = 200
        /\ result[p].qr_code = Placeholder(result[p].short_url)
        /\ result[p] \in store

\* C10: a create without a custom alias always comes to an end: its
\* resolution loop gives up after a bounded number of candidates instead of
\* looping for ever, also when every alias of the space is taken.
C10_CreateTerminates ==
    \A p \in Procs :
        (kind[p] = "create" /\ alias_arg[p] = NoAlias /\ pc[p] = "add_url_check")
           ~> Done(p)

\* C11: a create handed an empty URL is turned away while validating,
\* before any lookup, rendering or insert, so it never gets past the alias
\* check and no row holds a long_url that is empty or a bare scheme.
C11_EmptyUrlRejected ==
    /\ \A p \in Procs :
          (kind[p] = "create" /\ original_url[p] = EmptyStr)
             => pc[p] \notin {"generate_qr", "add_url_insert", "shorten_fetch"}
    /\ \A r \in store :
          r.long_url \notin {EmptyStr, <<"http://">>, <<"https://">>}

\* C12: the row a create inserts holds the URL text with "https://" put in
\* front when the text does not start with "http://" or "https://"
\* ("example.com" is stored as "https://example.com") and holds the text
\* unchanged when it does; normalizing the stored text again changes
\* nothing; so every row's long_url starts with a scheme.
C12_Normalization ==
    /\ [](\A r \in store :
            Len(r.long_url) > 0 /\ r.long_url[1] \in {"http://", "https://"})
    /\ [][ \A p \in Procs :
             (pc[p] = "add_url_insert" /\ pc'[p] = "shorten_fetch")
             => \E r \in store' \ store :
                  LET u == original_url[p]
                      starts == Len(u) > 0 /\ u[1] \in {"http://", "https://"}
                  IN  /\ r.short_url = short_url[p]
                      /\ starts => r.long_url = u
                      /\ ~starts => r.long_url = <<"https://">> \o u
                      /\ u = <<"example.com">>
                            => r.long_url = <<"https://", "example.com">>
                      /\ Normalize(r.long_url) = r.long_url ]_vars

\* Two creates have inserted their rows: one was handed "example.com" and
\* its row holds "https://example.com", the other was handed
\* "http://example.com" and its row holds that text.
C12_Witness ==
    \E p \in Procs, q \in Procs :
        /\ pc[p] = "shorten_fetch" /\ pc[q] = "shorten_fetch"
        /\ original_url[p] = <<"example.com">>
        /\ original_url[q] = <<"http://", "example.com">>
        /\ \E r \in store :
              r.short_url = short_url[p] /\ r.long_url = <<"https://", "example.com">>
        /\ \E r \in store :
              r.short_url = short_url[q] /\ r.long_url = <<"http://", "example.com">>

\* Two creates have been answered 200, both with the alias a.
BothReturned(p, q, a) ==
    /\ p # q
    /\ \A t \in {p, q} :
          /\ Done(t)
          /\ kind[t] = "create"
          /\ cause[t] = "ok"
          /\ response[t].status = 200
          /\ response[t].short_url = <<"BASE_URL/">> \o a

\* C13 as stated: whatever creates, resolves and removes have run, no two
\* creates that were answered 200 were answered with the same alias.
C13_ReturnedAliasesDiffer ==
    \A p \in Procs, q \in Procs, a \in AllAliases : ~BothReturned(p, q, a)

\* C13: two creates answered 200 with the same alias are possible only
\* after a remove: the rows the two inserted are not both stored.  Creates
\* whose rows are both stored were answered with different aliases.
C13_ReturnedAliasesDifferWhileStored ==
    \A p \in Procs, q \in Procs, a \in AllAliases :
        BothReturned(p, q, a)
        => ~ /\ \E r \in store : r.id = own_id[p]
             /\ \E r \in store : r.id = own_id[q]

\* Two creates were answered 200 with one alias: the row of the earlier one
\* is gone and the row of the later one is stored under that alias.
C13_Witness ==
    \E p \in Procs, q \in Procs, a \in AllAliases :
        /\ BothReturned(p, q, a)
        /\ own_id[p] < own_id[q]
        /\ \A r \in store : r.id # own_id[p]
        /\ \E r \in store : r.id = own_id[q] /\ r.short_url = a

\* C14: a create without a custom alias only ever holds, stores and
\* returns aliases of exactly 6 characters, 4 lowercase ASCII letters
\* followed by 2 ASCII digits, however many candidates it has drawn.
C14_GeneratedAliasShape ==
    \A p \in Procs :
        (kind[p] = "create" /\ alias_arg[p] = NoAlias)
        => LET Shaped(a) ==
                   /\ Len(a) = 6
                   /\ \A i \in 1..4 : a[i] \in AsciiLowercase
                   /\ \A i \in 5..6 : a[i] \in AsciiDigits
           IN  /\ pc[p] \in {"add_url_check", "generate_qr",
                              "add_url_insert", "shorten_fetch"}
                     => Shaped(short_url[p])
               /\ (Done(p) /\ cause[p] = "ok")
                     => /\ Shaped(result[p].short_url)
                        /\ response[p].short_url
                              = <<"BASE_URL/">> \o result[p].short_url

\* A create without a custom alias was answered 200 with the alias of the
\* row it stored, while another such create holds a candidate that is taken
\* and has to draw again.
C14_Witness ==
    \E p \in Procs, q \in Procs :
        /\ Done(p) /\ kind[p] = "create" /\ alias_arg[p] = NoAlias
        /\ cause[p] = "ok"
        /\ result[p] \in store \ store0
        /\ kind[q] = "create" /\ alias_arg[q] = NoAlias
        /\ pc[q] = "add_url_check"
        /\ RowsOf(short_url[q]) # {}

\* C15: a create goes through its steps in one order - the URL is
\* normalized, then the alias is settled, then the artifact is rendered,
\* then the row is inserted - and the one insert stores the row with its
\* qr_code already set, so no stored row and no row a lookup returned has
\* an empty qr_code.
C15_RenderBeforePersist ==
    /\ [](/\ \A r \in store : r.qr_code # EmptyStr
          /\ \A p \in Procs : result[p] # NoRecord => result[p].qr_code # EmptyStr)
    /\ [][ \A p \in Procs :
             /\ pc'[p] = "add_url_check"
                   => /\ pc[p] \in {"idle", "add_url_check"}
                      /\ long_url'[p] = Normalize(original_url'[p])
             /\ pc'[p] = "generate_qr" => pc[p] \in {"add_url_check", "generate_qr"}
             /\ (pc'[p] = "generate_qr" /\ pc[p] = "add_url_check")
                   => /\ Truthy(short_url'[p])
                      /\ RowsOf(short_url'[p]) = {}
                      /\ qr_code_url'[p] = EmptyStr
             /\ pc'[p] = "add_url_insert"
                   => pc[p] \in {"generate_qr", "add_url_insert"}
             /\ (pc'[p] = "add_url_insert" /\ pc[p] = "generate_qr")
                   => qr_code_url'[p] # EmptyStr /\ store' = store
             /\ pc'[p] = "shorten_fetch"
                   => pc[p] \in {"add_url_insert", "shorten_fetch"}
             /\ (pc'[p] = "shorten_fetch" /\ pc[p] = "add_url_insert")
                   => \E r \in store' \ store :
                         /\ store' = store \cup {r}
                         /\ r.short_url = short_url[p]
                         /\ r.qr_code = qr_code_url[p]
                         /\ r.qr_code # EmptyStr ]_vars

\* A create has inserted its row, which carries a qr_code, and a resolve
\* running beside it has looked that row up.
C15_Witness ==
    \E p \in Procs, q \in Procs :
        /\ pc[p] = "shorten_fetch"
        /\ Done(q) /\ kind[q] = "resolve"
        /\ result[q] \in store \ store0
        /\ result[q].short_url = short_url[p]
        /\ result[q].qr_code = qr_code_url[p]
        /\ qr_code_url[p] # EmptyStr

\* C16: a create that has reached its insert and is not stopped by a store
\* outage completes: the insert stores its row and the create goes on to
\* its answer, also when another create runs beside it; a create fails
\* only while validating or settling its alias.
C16_PersistingCompletes ==
    [][ \A p \in Procs :
          ( /\ pc[p] = "add_url_insert"
            /\ pc'[p] # pc[p]
            /\ cause'[p] # "store_failure" )
          => /\ pc'[p] = "shorten_fetch"
             /\ \E r \in store' \ store :
                   r.short_url = short_url[p] /\ r.long_url = long_url[p] ]_vars

\* The run consisted of two removes of one alias that had a row when the
\* run started; both have ended and neither hit a store outage.
TwoRemovesOf(a) ==
    /\ numReq = 2
    /\ \E r \in store0 : r.short_url = a
    /\ \A p \in Procs :
          /\ Done(p)
          /\ kind[p] = "remove"
          /\ alias_arg[p] = a
          /\ cause[p] # "store_failure"

\* C17 as stated: of two removes of one existing alias exactly one returns
\* normally and the other ends with "Short URL not found"; the alias has
\* no row at the end.
C17_ExactlyOneRemoveSucceeds ==
    \A a \in PathInputs :
        TwoRemovesOf(a)
        => /\ \E p \in Procs, q \in Procs :
                 /\ p # q
                 /\ cause[p] = "ok" /\ response[p] = DeleteReturned
                 /\ cause[q] = "not_found" /\ response[q] = DeleteNotFound
           /\ RowsOf(a) = {}

\* C17: of two removes of one existing alias at least one returns
\* normally; the other returns normally too when its lookup still saw the
\* row, and ends with "Short URL not found" when it did not; in every
\* interleaving the alias has no row at the end.
C17_RemovesLeaveNoRow ==
    \A a \in PathInputs :
        TwoRemovesOf(a)
        => /\ \E p \in Procs : cause[p] = "ok" /\ response[p] = DeleteReturned
           /\ \A p \in Procs :
                 \/ /\ cause[p] = "ok"
                    /\ response[p] = DeleteReturned
                    /\ result[p] \in store0
                 \/ /\ cause[p] = "not_found"
                    /\ response[p] = DeleteNotFound
                    /\ result[p] = NoRecord
           /\ RowsOf(a) = {}

\* Two removes of one existing alias both looked the row up, both ran
\* their delete and both returned normally; the row is gone.
C17_Witness ==
    \E a \in PathInputs :
        /\ TwoRemovesOf(a)
        /\ \A p \in Procs : cause[p] = "ok" /\ result[p] \in store0
        /\ RowsOf(a) = {}

\* C18: a stored row never changes: every step leaves each row as it is
\* or takes it out, and a row is taken out only by the delete of a remove
\* called with that row's own alias; a row that appears is the one a
\* create's insert adds, under a key no row had before.
C18_RowsImmutable ==
    [][ /\ \A r \in store :
             \/ r \in store'
             \/ /\ \A r2 \in store' : r2.id # r.id
                /\ \E p \in Procs :
                      /\ kind[p] = "remove"
                      /\ pc[p] = "delete_exec"
                      /\ pc'[p] = "done"
                      /\ alias_arg[p] = r.short_url
        /\ \A r2 \in store' \ store :
             /\ \A r \in store : r.id < r2.id
             /\ \E p \in Procs :
                   /\ kind[p] = "create"
                   /\ pc[p] = "add_url_insert"
                   /\ pc'[p] = "shorten_fetch"
                   /\ r2.short_url = short_url[p] ]_vars

\* A remove has taken out the row of its alias; the other rows the run
\* started on are all still stored as they were.
C18_Witness ==
    \E p \in Procs :
        /\ Done(p) /\ kind[p] = "remove" /\ cause[p] = "ok"
        /\ result[p] \in store0
        /\ store = store0 \ {result[p]}
        /\ store # {}

\* C19: for every stored row whose qr_code is the public URL of
\* <alias>.png and not the placeholder, the image the bucket holds under
\* that name encodes the row's own long_url.
C19_ArtifactEncodesOwnUrl ==
    \A r \in store :
        r.qr_code = PublicUrl(r.short_url) => bucket[r.short_url] = r.long_url

\* C20: the delete of a remove takes out only the row the remove's own
\* lookup returned: a row stored under the same alias after that lookup
\* (the looked-up row having been removed by another request in between)
\* is still stored after the delete.
C20_RemoveOnlyObservedRow ==
    [][ \A p \in Procs :
          (pc[p] = "delete_exec" /\ pc'[p] = "done")
          => \A r \in store : r # result[p] => r \in store' ]_vars

====
